---- MODULE Spec2Model ----
(***************************************************************************)
(* Model of TechlifeLED (techlife_led.py): the client-side state of one   *)
(* LED controller and the binary frames it publishes.                     *)
(*                                                                         *)
(* The brightness is stored by the program as an IEEE-754 double          *)
(* (value / 100.0) and the channel levels are computed in double          *)
(* arithmetic, so the doubles are modelled bit for bit: a double is a     *)
(* record [mant, exp] with a 53-bit mantissa, whose value is              *)
(* mant * 2^exp.  Every operation rounds to nearest, ties to even, as the *)
(* hardware does.                                                          *)
(***************************************************************************)
EXTENDS Integers, Sequences, FiniteSets, TLC

VARIABLES
    _on,                \* self._on
    _brightness,        \* self._brightness, a double
    _color,             \* self._color, as the channels as_rgb_tuple returns
    _animation_speed,   \* self._animation_speed
    call,               \* the most recent call: [op, arg]
    raised,             \* the exception it raised, or "none"
    published,          \* the payload it handed to client.publish, or <<>>
    ret,                \* the value it returned
    device_mac,         \* self.device_mac
    topic,              \* self.topic
    qos,                \* self.qos
    _connected,         \* self._connected
    configured,         \* the arguments the constructor was given
    publishes,          \* the client.publish calls the most recent call made
    client,             \* self.client: "new", "looping" or "stopped"
    callers             \* concurrent callers: the position and the locals of each

vars == <<_on, _brightness, _color, _animation_speed, call, raised, published, ret,
          device_mac, topic, qos, _connected, configured, publishes, client,
          callers>>

\* what no method assigns after construction
fixed == <<device_mac, topic, qos, configured>>

\* what a call of one caller that is not connect() or close() leaves alone
aside == <<_connected, client, callers>>

\* the threads that call the controller with no lock
Callers == {1, 2}

\* a caller that has not called yet
Idle ==
    [pc |-> "idle", op |-> "-", arg |-> "-",
     c |-> <<>>, red |-> 0, green |-> 0, blue |-> 0, pct |-> 0]

(***************************************************************************)
(* Bounds of the model.                                                    *)
(***************************************************************************)
\* how far beyond the legal ranges the integer arguments reach
ArgSlack == 1

\* set_brightness(value): a sample of the legal range 0..100 and ArgSlack
\* values on each side of it
BrightnessArgs ==
    ((0 - ArgSlack)..(0 - 1)) \cup {0, 41, 50, 100} \cup (101..(100 + ArgSlack))

\* set_brightness(value): the whole legal range and ArgSlack values on each
\* side of it
SweepArgs == (0 - ArgSlack)..(100 + ArgSlack)

\* set_animation_speed(speed): a sample of the legal range 1..100, ArgSlack
\* values on each side of it, and 150
SpeedArgs ==
    ((1 - ArgSlack)..0) \cup {1, 100} \cup (101..(100 + ArgSlack)) \cup {150}

\* set_color(color): two colours the resolver accepts and one it rejects
ColorInputs == {"#ff0000", "#336699", "not-a-color"}

(***************************************************************************)
(* Protocol constants.                                                     *)
(***************************************************************************)
CMD_SET_STATIC == 40
TAIL_SET_STATIC == 41
FLAG_SET_STATIC == 15
CMD_ANIMATE == 102
SUBMODE_ANIMATE == 37
TAIL_ANIMATE == 153
CMD_POWER == 250
SUB_ON == 35
SUB_OFF == 36
TAIL_POWER == 251
CMD_UPDATE == 169
SUB_UPDATE == 240
TAIL_UPDATE == 154

(***************************************************************************)
(* Natural numbers wider than the 32-bit integers of TLC: a sequence of    *)
(* limbs of 9 bits, least significant limb first.  Bit i has weight 2^i.   *)
(***************************************************************************)
Base == 2^9

Get(s, i) == IF i >= 1 /\ i <= Len(s) THEN s[i] ELSE 0

\* the limb made of the 9 bits a .. a + 8 of s (bits below 0 are zero)
LimbAt(s, a) ==
    (Get(s, (a \div 9) + 1) \div 2^(a % 9))
    + (Get(s, (a \div 9) + 2) % 2^(a % 9)) * 2^(9 - (a % 9))

Bit(s, i) == (Get(s, (i \div 9) + 1) \div 2^(i % 9)) % 2

\* number of bits of an integer 0 <= x < 2^9
BitLenInt(x) == CHOOSE k \in 0..9 : x < 2^k /\ (k = 0 \/ x >= 2^(k - 1))

\* number of bits of s
BitLen(s) ==
    IF \A i \in 1..Len(s) : s[i] = 0 THEN 0
    ELSE LET t == CHOOSE i \in 1..Len(s) :
                      s[i] # 0 /\ \A j \in (i + 1)..Len(s) : s[j] = 0
         IN  9 * (t - 1) + BitLenInt(s[t])

\* whether one of the bits 0 .. d - 1 of s is set
LowBitsSet(s, d) ==
    \/ \E i \in 1..Len(s) : 9 * i <= d /\ s[i] # 0
    \/ Get(s, (d \div 9) + 1) % 2^(d % 9) # 0

RECURSIVE AddOne(_)
AddOne(s) ==
    IF s = <<>> THEN <<1>>
    ELSE IF s[1] < Base - 1 THEN <<s[1] + 1>> \o Tail(s)
    ELSE <<0>> \o AddOne(Tail(s))

\* the limbs, from limb i of s upward, of n * s + carry * Base^(i - 1), for
\* 0 <= n <= 4000000
RECURSIVE MulLimbs(_, _, _, _)
MulLimbs(n, s, i, carry) ==
    IF i > Len(s)
    THEN <<carry % Base, (carry \div Base) % Base, carry \div (Base * Base)>>
    ELSE LET t == carry + n * s[i]
             c == t \div Base
         IN  <<t % Base>> \o MulLimbs(n, s, i + 1, c)

\* long division: the next k limbs of the quotient after remainder r, least
\* significant first, and the remainder left after them
RECURSIVE DivLimbs(_, _, _, _)
DivLimbs(r, d, k, acc) ==
    IF k = 0 THEN [limbs |-> acc, rem |-> r]
    ELSE LET t == r * Base
             q == <<t \div d>> \o acc
         IN  DivLimbs(t % d, d, k - 1, q)

(***************************************************************************)
(* IEEE-754 binary64, non-negative values: [mant, exp] stands for          *)
(* mant * 2^exp, where mant is 6 limbs holding a 53-bit mantissa whose top *)
(* bit is set; zero has an all-zero mantissa.                              *)
(***************************************************************************)
MantBits == 53

FloatZero == [mant |-> <<0, 0, 0, 0, 0, 0>>, exp |-> 0]

\* the literal 1.0
FloatOne == [mant |-> <<0, 0, 0, 0, 0, 2^7>>, exp |-> 0 - (MantBits - 1)]

\* the kept mantissa m (after rounding) of a number whose d low bits were
\* dropped: the rounding may carry into bit 53
Renormalise(m, e, d) ==
    IF m[6] = 2^8
    THEN [mant |-> <<0, 0, 0, 0, 0, 2^7>>, exp |-> e + d + 1]
    ELSE [mant |-> m, exp |-> e + d]

\* round to nearest, ties to even: kept are the 53 top bits of s, d the
\* number of bits of s below them
RoundKept(s, e, d, kept) ==
    IF /\ d >= 1
       /\ Bit(s, d - 1) = 1
       /\ (LowBitsSet(s, d - 1) \/ kept[1] % 2 = 1)
    THEN Renormalise(AddOne(kept), e, d)
    ELSE Renormalise(kept, e, d)

\* the double nearest to s * 2^e
RoundToFloat(s, e) ==
    IF \A i \in 1..Len(s) : s[i] = 0 THEN FloatZero
    ELSE LET d == BitLen(s) - MantBits
             kept == [i \in 1..6 |-> LimbAt(s, d + 9 * (i - 1))]
         IN  RoundKept(s, e, d, kept)

\* p / d for integers 0 <= p < 2^18, 0 < d < 2^18 converted to doubles: one
\* correctly rounded division.  The long division yields 72 bits after the
\* binary point; what is left of it is a sticky limb below them.
FloatDivInt(p, d) ==
    LET frac == DivLimbs(p % d, d, 8, <<>>)
        sticky == IF frac.rem > 0 THEN 1 ELSE 0
        quot == <<sticky>> \o frac.limbs
                \o <<(p \div d) % Base, (p \div d) \div Base>>
    IN  RoundToFloat(quot, 0 - 9 * 9)

\* n * f for an integer 0 <= n <= 4000000 (exactly a double) and a double
\* f: the exact product, rounded once
FloatMulInt(n, f) ==
    LET mant == f.mant
        prod == MulLimbs(n, mant, 1, 0)
    IN  RoundToFloat(prod, f.exp)

\* floor(f) for a double f below 2^31
IntPart(f) ==
    LimbAt(f.mant, 0 - f.exp)
    + Base * LimbAt(f.mant, 9 - f.exp)
    + Base * Base * LimbAt(f.mant, 18 - f.exp)
    + Base * Base * Base * LimbAt(f.mant, 27 - f.exp)

\* f // d for a double f below 2^31 and an integer d > 0, as an integer
FloatFloorDiv(f, d) == IntPart(f) \div d

\* ip rounded up when the fraction of f is above one half, or is one half
\* and ip is odd
RoundHalfEven(f, ip) ==
    IF /\ f.exp <= 0 - 1
       /\ Bit(f.mant, 0 - f.exp - 1) = 1
       /\ (LowBitsSet(f.mant, 0 - f.exp - 1) \/ ip % 2 = 1)
    THEN ip + 1
    ELSE ip

\* int(f) in place of round(f): truncation
PyRound_truncating(f) == IntPart(f)

\* round(f): the nearest integer, ties to even
PyRound(f) ==
    LET ip == IntPart(f)
    IN  RoundHalfEven(f, ip)

(***************************************************************************)
(* Frames.  A frame is a sequence of bytes; the byte at offset k of the    *)
(* program's bytes object is element k + 1 of the sequence.               *)
(***************************************************************************)
\* a layout one byte short ("<B6H2B"): the second trailing u8 is missing
FRAME_pack_15(cmd, f1, f2, f3, f4, f5, f6, b1, b2, b3) ==
    <<cmd,
      f1 % 256, f1 \div 256, f2 % 256, f2 \div 256, f3 % 256, f3 \div 256,
      f4 % 256, f4 \div 256, f5 % 256, f5 \div 256, f6 % 256, f6 \div 256,
      b1, b3>>

\* struct.Struct("<B6H3B").pack: one u8, six little-endian u16, three u8
FRAME_pack(cmd, f1, f2, f3, f4, f5, f6, b1, b2, b3) ==
    <<cmd,
      f1 % 256, f1 \div 256, f2 % 256, f2 \div 256, f3 % 256, f3 \div 256,
      f4 % 256, f4 \div 256, f5 % 256, f5 \div 256, f6 % 256, f6 \div 256,
      b1, b2, b3>>

RECURSIVE Xor(_, _)
Xor(a, b) ==
    IF a = 0 THEN b
    ELSE IF b = 0 THEN a
    ELSE ((a + b) % 2) + 2 * Xor(a \div 2, b \div 2)

\* reduce(lambda x, y: x ^ y, payload[lo:hi + 1]), lo and hi being offsets
RECURSIVE XorRange(_, _, _)
XorRange(payload, lo, hi) ==
    IF lo = hi THEN payload[lo + 1]
    ELSE Xor(XorRange(payload, lo, hi - 1), payload[hi + 1])

\* a checksum that also covers the command byte (payload[0:14])
_insert_checksum_from0(frame) ==
    LET payload == frame
        checksum == XorRange(payload, 0, 13) % 256
    IN  [payload EXCEPT ![15] = checksum]

\* a checksum written over the last byte (payload[15])
_insert_checksum_last(frame) ==
    LET payload == frame
        checksum == XorRange(payload, 1, 13) % 256
    IN  [payload EXCEPT ![16] = checksum]

\* payload[14] = reduce(xor, payload[1:14]) & 0xFF
_insert_checksum(frame) ==
    LET payload == frame
        checksum == XorRange(payload, 1, 13) % 256
    IN  [payload EXCEPT ![15] = checksum]

(***************************************************************************)
(* Colour resolution (pydantic's Color): the channels of the inputs the   *)
(* model feeds to set_color, or "invalid" when the resolver rejects one.  *)
(***************************************************************************)
ResolveColor(c) ==
    CASE c = "#ffffff" -> <<255, 255, 255>>
      [] c = "#ff0000" -> <<255, 0, 0>>
      [] c = "#336699" -> <<51, 102, 153>>
      [] OTHER -> "invalid"

(***************************************************************************)
(* The controller.                                                         *)
(***************************************************************************)
\* TechlifeLED(mqtt_server, mac_addr, topic_prefix = ..., qos = ...); a string
\* is a sequence, so that the f-string is a concatenation
__init__(mac_addr, topic_prefix, qos_arg) ==
    /\ device_mac = mac_addr
    /\ topic = topic_prefix \o device_mac
    /\ qos = qos_arg
    /\ _on = FALSE
    /\ _brightness = FloatOne
    /\ _color = ResolveColor("#ffffff")
    /\ _animation_speed = 99
    /\ _connected = FALSE
    /\ client = "new"
    /\ callers = [t \in Callers |-> Idle]
    /\ configured = [mac_addr |-> mac_addr, topic_prefix |-> topic_prefix,
                     qos |-> qos_arg]
    /\ call = [op |-> "init", arg |-> "-"]
    /\ raised = "none"
    /\ published = <<>>
    /\ publishes = <<>>
    /\ ret = "None"

\* the controller constructed with the default topic_prefix and qos
Init == __init__(<<"a1b2c3d4e5f6">>, <<"dev_sub_">>, 0)

\* a clamp that forgets the upper limit: max(lo, v)
Clamp_no_upper(lo, hi, v) == IF v < lo THEN lo ELSE v

\* max(lo, min(hi, v))
Clamp(lo, hi, v) == IF v < lo THEN lo ELSE IF v > hi THEN hi ELSE v

\* client.publish(topic, payload): the payload is handed to the transport,
\* which either accepts it (ok) or raises
\* _send_with_checksum calling publish again when publish raises
_send_with_checksum_retrying(self, frame, ok) ==
    LET attempt == [topic |-> topic, payload |-> _insert_checksum(frame),
                    qos |-> qos, self |-> self,
                    raises |-> IF ok THEN "none" ELSE "TransportError"]
    IN  /\ published' = attempt.payload
        /\ publishes' = IF ok THEN <<attempt>> ELSE <<attempt, attempt>>
        /\ raised' = attempt.raises

\* _send_with_checksum catching what publish raises
_send_with_checksum_suppressing(self, frame, ok) ==
    /\ published' = _insert_checksum(frame)
    /\ publishes' = <<[topic |-> topic, payload |-> published', qos |-> qos,
                       self |-> self,
                       raises |-> IF ok THEN "none" ELSE "TransportError"]>>
    /\ raised' = "none"

\* _send_with_checksum leaving qos to the default of publish
_send_with_checksum_at_default_qos(self, frame, ok) ==
    /\ published' = _insert_checksum(frame)
    /\ publishes' = <<[topic |-> topic, payload |-> published', qos |-> 0,
                       self |-> self,
                       raises |-> IF ok THEN "none" ELSE "TransportError"]>>
    /\ raised' = publishes'[1].raises

\* self is the controller's state at the moment of the call; publish either
\* returns (ok) or raises, and what it raises is not caught
_send_with_checksum(self, frame, ok) ==
    /\ published' = _insert_checksum(frame)
    /\ publishes' = <<[topic |-> topic, payload |-> published', qos |-> qos,
                       self |-> self,
                       raises |-> IF ok THEN "none" ELSE "TransportError"]>>
    /\ raised' = publishes'[1].raises

\* the fields of self the methods assign, as they are before the call
Self == [_on |-> _on, _color |-> _color, _brightness |-> _brightness]

\* level(x) without the division by 255
level_without_division(x, b) ==
    LET scaled == FloatMulInt(x * 10000, b)
    IN  IntPart(scaled)

\* level(x) of _apply_static, for the stored brightness b
level(x, b) ==
    LET scaled == FloatMulInt(x * 10000, b)
    IN  FloatFloorDiv(scaled, 255)

\* int(round(100 * b))
brightness_0_100(b) ==
    LET pct == FloatMulInt(100, b)
    IN  PyRound(pct)

\* _apply_static sending the colour at full brightness
_apply_static_at_full_brightness(c, b) ==
    LET red == level(c[1], FloatOne)
        green == level(c[2], FloatOne)
        blue == level(c[3], FloatOne)
        pct == brightness_0_100(FloatOne)
    IN  FRAME_pack(CMD_SET_STATIC, red, green, blue, 0, 0, pct,
                   FLAG_SET_STATIC, 0, TAIL_SET_STATIC)

\* the frame _apply_static assembles from colour c and brightness b
_apply_static(c, b) ==
    LET red == level(c[1], b)
        green == level(c[2], b)
        blue == level(c[3], b)
        pct == brightness_0_100(b)
    IN  FRAME_pack(CMD_SET_STATIC, red, green, blue, 0, 0, pct,
                   FLAG_SET_STATIC, 0, TAIL_SET_STATIC)

\* on() assigning the flag before it sends
on_flag_first(ok) ==
    /\ _on' = TRUE
    /\ _send_with_checksum([Self EXCEPT !._on = _on'],
           FRAME_pack(CMD_POWER, SUB_ON, 0, 0, 0, 0, 0, 0, 0, TAIL_POWER), ok)
    /\ call' = [op |-> "on", arg |-> "-"]
    /\ ret' = "None"
    /\ UNCHANGED <<_brightness, _color, _animation_speed, fixed, aside>>

on(ok) ==
    /\ _send_with_checksum(Self,
           FRAME_pack(CMD_POWER, SUB_ON, 0, 0, 0, 0, 0, 0, 0, TAIL_POWER), ok)
    /\ _on' = IF ok THEN TRUE ELSE _on
    /\ call' = [op |-> "on", arg |-> "-"]
    /\ ret' = "None"
    /\ UNCHANGED <<_brightness, _color, _animation_speed, fixed, aside>>

\* off() sending the sub-command of on()
off_sending_on(ok) ==
    /\ _send_with_checksum(Self,
           FRAME_pack(CMD_POWER, SUB_ON, 0, 0, 0, 0, 0, 0, 0, TAIL_POWER), ok)
    /\ _on' = IF ok THEN FALSE ELSE _on
    /\ call' = [op |-> "off", arg |-> "-"]
    /\ ret' = "None"
    /\ UNCHANGED <<_brightness, _color, _animation_speed, fixed, aside>>

off(ok) ==
    /\ _send_with_checksum(Self,
           FRAME_pack(CMD_POWER, SUB_OFF, 0, 0, 0, 0, 0, 0, 0, TAIL_POWER), ok)
    /\ _on' = IF ok THEN FALSE ELSE _on
    /\ call' = [op |-> "off", arg |-> "-"]
    /\ ret' = "None"
    /\ UNCHANGED <<_brightness, _color, _animation_speed, fixed, aside>>

is_on ==
    /\ ret' = _on
    /\ call' = [op |-> "is_on", arg |-> "-"]
    /\ raised' = "none"
    /\ published' = <<>>
    /\ publishes' = <<>>
    /\ UNCHANGED <<_on, _brightness, _color, _animation_speed, fixed, aside>>

\* set_color storing black before it reports the invalid colour
set_color_storing_invalid(c, ok) ==
    /\ call' = [op |-> "set_color", arg |-> c]
    /\ ret' = "None"
    /\ IF ResolveColor(c) = "invalid"
       THEN /\ raised' = "ValueError"
            /\ published' = <<>>
            /\ publishes' = <<>>
            /\ _color' = <<0, 0, 0>>
       ELSE /\ _color' = ResolveColor(c)
            /\ _send_with_checksum([Self EXCEPT !._color = _color'],
                                   _apply_static(_color', _brightness), ok)
    /\ UNCHANGED <<_on, _brightness, _animation_speed, fixed, aside>>

set_color(c, ok) ==
    /\ call' = [op |-> "set_color", arg |-> c]
    /\ ret' = "None"
    /\ IF ResolveColor(c) = "invalid"
       THEN /\ raised' = "ValueError"
            /\ published' = <<>>
            /\ publishes' = <<>>
            /\ UNCHANGED _color
       ELSE /\ _color' = ResolveColor(c)
            /\ _send_with_checksum([Self EXCEPT !._color = _color'],
                                   _apply_static(_color', _brightness), ok)
    /\ UNCHANGED <<_on, _brightness, _animation_speed, fixed, aside>>

\* set_brightness marking the strip as on
set_brightness_turning_on(value, ok) ==
    /\ _brightness' = FloatDivInt(Clamp(0, 100, value), 100)
    /\ _send_with_checksum([Self EXCEPT !._brightness = _brightness'],
                           _apply_static(_color, _brightness'), ok)
    /\ _on' = TRUE
    /\ call' = [op |-> "set_brightness", arg |-> value]
    /\ ret' = "None"
    /\ UNCHANGED <<_color, _animation_speed, fixed, aside>>

set_brightness(value, ok) ==
    /\ _brightness' = FloatDivInt(Clamp(0, 100, value), 100)
    /\ _send_with_checksum([Self EXCEPT !._brightness = _brightness'],
                           _apply_static(_color, _brightness'), ok)
    /\ call' = [op |-> "set_brightness", arg |-> value]
    /\ ret' = "None"
    /\ UNCHANGED <<_on, _color, _animation_speed, fixed, aside>>

get_brightness ==
    /\ ret' = LET pct == FloatMulInt(100, _brightness) IN PyRound(pct)
    /\ call' = [op |-> "get_brightness", arg |-> "-"]
    /\ raised' = "none"
    /\ published' = <<>>
    /\ publishes' = <<>>
    /\ UNCHANGED <<_on, _brightness, _color, _animation_speed, fixed, aside>>

\* set_animation_speed sending the Animate frame at once
set_animation_speed_sending(speed) ==
    /\ _animation_speed' = Clamp(1, 100, speed)
    /\ _send_with_checksum(Self,
           FRAME_pack(CMD_ANIMATE, SUBMODE_ANIMATE,
                      ((100 - _animation_speed') * 255) \div 100, 100, 0, 0, 0,
                      0, 0, TAIL_ANIMATE), TRUE)
    /\ call' = [op |-> "set_animation_speed", arg |-> speed]
    /\ ret' = "None"
    /\ UNCHANGED <<_on, _brightness, _color, fixed, aside>>

set_animation_speed(speed) ==
    /\ _animation_speed' = Clamp(1, 100, speed)
    /\ call' = [op |-> "set_animation_speed", arg |-> speed]
    /\ ret' = "None"
    /\ raised' = "none"
    /\ published' = <<>>
    /\ publishes' = <<>>
    /\ UNCHANGED <<_on, _brightness, _color, fixed, aside>>

\* the speed scaled without the inversion: speed * 255 // 100
device_speed_direct(s) == (s * 255) \div 100

\* (100 - self._animation_speed) * 255 // 100
device_speed(s) == ((100 - s) * 255) \div 100

animate(enabled, ok) ==
    /\ IF enabled
       THEN _send_with_checksum(Self,
                FRAME_pack(CMD_ANIMATE, SUBMODE_ANIMATE,
                           device_speed(_animation_speed), 100, 0, 0, 0,
                           0, 0, TAIL_ANIMATE), ok)
       ELSE _send_with_checksum(Self, _apply_static(_color, _brightness), ok)
    /\ call' = [op |-> "animate", arg |-> enabled]
    /\ ret' = "None"
    /\ UNCHANGED <<_on, _brightness, _color, _animation_speed, fixed, aside>>

\* update() leaving the flag alone
update_keeping_flag(ok) ==
    /\ _send_with_checksum(Self,
           FRAME_pack(CMD_UPDATE, SUB_UPDATE, 0, 0, 0, 0, 0, 0, 0, TAIL_UPDATE), ok)
    /\ call' = [op |-> "update", arg |-> "-"]
    /\ ret' = "None"
    /\ UNCHANGED <<_on, _brightness, _color, _animation_speed, fixed, aside>>

update(ok) ==
    /\ _send_with_checksum(Self,
           FRAME_pack(CMD_UPDATE, SUB_UPDATE, 0, 0, 0, 0, 0, 0, 0, TAIL_UPDATE), ok)
    /\ _on' = IF ok THEN TRUE ELSE _on
    /\ call' = [op |-> "update", arg |-> "-"]
    /\ ret' = "None"
    /\ UNCHANGED <<_brightness, _color, _animation_speed, fixed, aside>>

\* a call that sends nothing and assigns nothing but what it names
Quiet(op, arg) ==
    /\ call' = [op |-> op, arg |-> arg]
    /\ ret' = "None"
    /\ published' = <<>>
    /\ publishes' = <<>>
    /\ UNCHANGED <<_on, _brightness, _color, _animation_speed, fixed, callers>>

\* connect(): client.connect raises, or returns and loop_start starts the loop
connect(ok) ==
    /\ Quiet("connect", "-")
    /\ raised' = IF ok THEN "none" ELSE "TransportError"
    /\ client' = IF ok THEN "looping" ELSE client
    /\ UNCHANGED _connected

\* close(): loop_stop, then disconnect
close ==
    /\ Quiet("close", "-")
    /\ raised' = "none"
    /\ client' = "stopped"
    /\ UNCHANGED _connected

\* the callback the loop runs on a CONNACK with return code rc
_on_connect(rc) ==
    /\ client = "looping"
    /\ Quiet("_on_connect", rc)
    /\ raised' = "none"
    /\ _connected' = (rc = 0)
    /\ UNCHANGED client

\* the callback the client runs when the connection is gone
_on_disconnect ==
    /\ client # "new"
    /\ Quiet("_on_disconnect", "-")
    /\ raised' = "none"
    /\ _connected' = FALSE
    /\ UNCHANGED client

Next ==
    \/ \E ok \in BOOLEAN : on(ok)
    \/ \E ok \in BOOLEAN : off(ok)
    \/ is_on
    \/ \E c \in ColorInputs, ok \in BOOLEAN : set_color(c, ok)
    \/ \E value \in BrightnessArgs, ok \in BOOLEAN : set_brightness(value, ok)
    \/ get_brightness
    \/ \E speed \in SpeedArgs : set_animation_speed(speed)
    \/ \E enabled \in BOOLEAN, ok \in BOOLEAN : animate(enabled, ok)
    \/ \E ok \in BOOLEAN : update(ok)

Spec == Init /\ [][Next]_vars

\* the brightness round trip over the whole argument range
NextSweep ==
    \/ \E value \in SweepArgs, ok \in BOOLEAN : set_brightness(value, ok)
    \/ get_brightness

SpecSweep == Init /\ [][NextSweep]_vars

\* the constructor arguments and the connection life cycle
MacAddrs == {<<"a1b2c3d4e5f6">>, <<"0011223344ff">>}

TopicPrefixes == {<<"dev_sub_">>, <<"led", "/">>}

QosArgs == 0..2

ReturnCodes == {0, 5}

InitConn ==
    \E mac_addr \in MacAddrs, topic_prefix \in TopicPrefixes, qos_arg \in QosArgs :
        __init__(mac_addr, topic_prefix, qos_arg)

NextConn ==
    \/ \E ok \in BOOLEAN : connect(ok)
    \/ close
    \/ \E rc \in ReturnCodes : _on_connect(rc)
    \/ _on_disconnect
    \/ \E ok \in BOOLEAN : on(ok)
    \/ \E ok \in BOOLEAN : off(ok)
    \/ \E ok \in BOOLEAN : update(ok)
    \/ \E enabled \in BOOLEAN : animate(enabled, TRUE)
    \/ set_color("#ff0000", TRUE)
    \/ set_brightness(50, TRUE)
    \/ set_animation_speed(1)

SpecConn == InitConn /\ [][NextConn]_vars

(***************************************************************************)
(* Callers with no lock: each caller makes one call of set_brightness or   *)
(* set_color, and the calls run statement by statement, a caller being     *)
(* preempted between any two reads or writes of self.                      *)
(***************************************************************************)
ConcBrightnessArgs == {0, 50}

ConcColors == {"#ff0000"}

\* caller t goes on to position pc; what it has read stays in its locals
Goto(t, pc, locals) ==
    /\ callers' = [callers EXCEPT ![t] = [locals EXCEPT !.pc = pc]]
    /\ UNCHANGED <<_on, _animation_speed, call, raised, published, ret,
                   fixed, _connected, client, publishes>>

\* set_brightness(value) up to self._brightness = value / 100.0
store_brightness(t, value) ==
    /\ callers[t].pc = "idle"
    /\ _brightness' = FloatDivInt(Clamp(0, 100, value), 100)
    /\ Goto(t, "read_color",
            [callers[t] EXCEPT !.op = "set_brightness", !.arg = value])
    /\ UNCHANGED _color

\* set_color(c), c valid, up to self._color = Color(c)
store_color(t, c) ==
    /\ callers[t].pc = "idle"
    /\ ResolveColor(c) # "invalid"
    /\ _color' = ResolveColor(c)
    /\ Goto(t, "read_color", [callers[t] EXCEPT !.op = "set_color", !.arg = c])
    /\ UNCHANGED _brightness

\* r, g, b = self._color.as_rgb_tuple(alpha=False)
read_color(t) ==
    /\ callers[t].pc = "read_color"
    /\ Goto(t, "level_red", [callers[t] EXCEPT !.c = _color])
    /\ UNCHANGED <<_color, _brightness>>

\* level(r), which reads self._brightness
level_red(t) ==
    /\ callers[t].pc = "level_red"
    /\ Goto(t, "level_green",
            [callers[t] EXCEPT !.red = level(callers[t].c[1], _brightness)])
    /\ UNCHANGED <<_color, _brightness>>

\* level(g), which reads self._brightness again
level_green(t) ==
    /\ callers[t].pc = "level_green"
    /\ Goto(t, "level_blue",
            [callers[t] EXCEPT !.green = level(callers[t].c[2], _brightness)])
    /\ UNCHANGED <<_color, _brightness>>

\* level(b) computed at the brightness of a fresh controller
level_blue_at_initial_brightness(t) ==
    /\ callers[t].pc = "level_blue"
    /\ Goto(t, "brightness_0_100",
            [callers[t] EXCEPT !.blue = level(callers[t].c[3], FloatOne)])
    /\ UNCHANGED <<_color, _brightness>>

\* level(b), which reads self._brightness again
level_blue(t) ==
    /\ callers[t].pc = "level_blue"
    /\ Goto(t, "brightness_0_100",
            [callers[t] EXCEPT !.blue = level(callers[t].c[3], _brightness)])
    /\ UNCHANGED <<_color, _brightness>>

\* brightness_0_100 = int(round(100 * self._brightness))
read_brightness_0_100(t) ==
    /\ callers[t].pc = "brightness_0_100"
    /\ Goto(t, "send",
            [callers[t] EXCEPT !.pct = brightness_0_100(_brightness)])
    /\ UNCHANGED <<_color, _brightness>>

\* the frame packed from the locals and handed to _send_with_checksum
send(t, ok) ==
    /\ callers[t].pc = "send"
    /\ _send_with_checksum(Self,
           FRAME_pack(CMD_SET_STATIC, callers[t].red, callers[t].green,
                      callers[t].blue, 0, 0, callers[t].pct,
                      FLAG_SET_STATIC, 0, TAIL_SET_STATIC), ok)
    /\ call' = [op |-> callers[t].op, arg |-> callers[t].arg]
    /\ ret' = "None"
    /\ callers' = [callers EXCEPT ![t].pc = "done"]
    /\ UNCHANGED <<_on, _brightness, _color, _animation_speed, fixed,
                   _connected, client>>

NextConc ==
    \/ \E t \in Callers, value \in ConcBrightnessArgs : store_brightness(t, value)
    \/ \E t \in Callers, c \in ConcColors : store_color(t, c)
    \/ \E t \in Callers : read_color(t)
    \/ \E t \in Callers : level_red(t)
    \/ \E t \in Callers : level_green(t)
    \/ \E t \in Callers : level_blue(t)
    \/ \E t \in Callers : read_brightness_0_100(t)
    \/ \E t \in Callers, ok \in BOOLEAN : send(t, ok)

SpecConc == Init /\ [][NextConc]_vars

(***************************************************************************)
(* Reading a published frame.                                              *)
(***************************************************************************)
At(frame, offset) == frame[offset + 1]

\* the little-endian u16 field k (1..6) of a frame
Field(frame, k) == At(frame, 2 * k - 1) + 256 * At(frame, 2 * k)

\* bit i of the XOR of the bytes at offsets lo..hi: the parity of the number
\* of those bytes that have bit i set
ParityBit(frame, lo, hi, i) ==
    Cardinality({k \in lo..hi : (At(frame, k) \div 2^i) % 2 = 1}) % 2

\* byte v is the XOR of the bytes of frame at offsets lo..hi
IsXorOf(v, frame, lo, hi) ==
    /\ v \in 0..255
    /\ \A i \in 0..7 : (v \div 2^i) % 2 = ParityBit(frame, lo, hi, i)

Sent == published # <<>>

\* the tail marker the command byte of a frame goes with
TailMarker(cmd) ==
    CASE cmd = CMD_POWER -> TAIL_POWER
      [] cmd = CMD_SET_STATIC -> TAIL_SET_STATIC
      [] cmd = CMD_ANIMATE -> TAIL_ANIMATE
      [] cmd = CMD_UPDATE -> TAIL_UPDATE

(***************************************************************************)
(* C1 (as stated): every payload handed to the transport is exactly 15     *)
(* bytes long.  The code packs "<B6H3B", which is 1 + 12 + 3 = 16 bytes.   *)
(***************************************************************************)
C1_FrameLength15 == Sent => Len(published) = 15

\* C1 (amended): every payload handed to the transport, by any
\* frame-emitting operation in any reachable state, is exactly 16 bytes long.
C1_FrameLength16 == Sent => Len(published) = 16

C1_Witness ==
    /\ call.op = "set_brightness"
    /\ Sent
    /\ Len(published) = 16

(***************************************************************************)
(* C2: in every frame handed to the transport the byte at offset 14 is the *)
(* XOR of the bytes at offsets 1..13 (offset 0 excluded), and it does not  *)
(* depend on the value offset 14 held when the frame was assembled.        *)
(***************************************************************************)
C2_Checksum ==
    Sent =>
        /\ IsXorOf(At(published, 14), published, 1, 13)
        /\ \A v \in {0, 1, TAIL_SET_STATIC, TAIL_POWER, 255} :
               At(_insert_checksum([published EXCEPT ![15] = v]), 14)
                   = At(published, 14)

\* a static frame whose checksum differs from the XOR that includes offset 0
C2_Witness ==
    /\ Sent
    /\ At(published, 0) = CMD_SET_STATIC
    /\ At(published, 14) # 0
    /\ IsXorOf(At(published, 14), published, 1, 13)
    /\ ~IsXorOf(At(published, 14), published, 0, 13)

(***************************************************************************)
(* C3 (as stated): the checksum overwrites the tail marker, so the final   *)
(* byte of the transmitted frame is the checksum and the tail marker is    *)
(* not transmitted.                                                        *)
(***************************************************************************)
C3_TailOverwritten ==
    Sent =>
        /\ IsXorOf(published[Len(published)], published, 1, 13)
        /\ published[Len(published)] # TailMarker(At(published, 0))

\* C3 (amended): for every command the checksum overwrites offset 14, the
\* second trailing u8 (assembled as 0); the tail marker is written at offset
\* 15, is not overwritten, and is the final byte of the transmitted frame.
C3_TailKept ==
    Sent =>
        /\ Len(published) = 16
        /\ At(published, 15) = TailMarker(At(published, 0))
        /\ IsXorOf(At(published, 14), published, 1, 13)
        /\ (call.op \in {"on", "off"} => At(published, 15) = 251)
        /\ (call.op = "update" => At(published, 15) = 154)
        /\ (call.op \in {"set_color", "set_brightness"} => At(published, 15) = 41)
        /\ (call.op = "animate" =>
               At(published, 15) = IF call.arg THEN 153 ELSE 41)

C3_Witness ==
    /\ call.op = "on"
    /\ Sent
    /\ At(published, 15) = 251
    /\ At(published, 14) = 35

(***************************************************************************)
(* C4 (as stated): every Set-Static-Color frame emitted with stored colour *)
(* (r, g, b) and stored brightness p percent has cmd 0x28, the fields      *)
(* floor(r * 10000 * (p / 100) / 255), likewise g and b, 0, 0, p, and the  *)
(* first trailing u8 0x0F.  r * 10000 * (p / 100) / 255 is r * 100 * p /   *)
(* 255 exactly.  The code computes the levels in double arithmetic.        *)
(***************************************************************************)
\* the percentage p whose double p / 100.0 is the stored brightness
StoredPercent == CHOOSE p \in 0..100 : FloatDivInt(p, 100) = _brightness

ExactLevel(x, p) == (x * 100 * p) \div 255

C4_StaticEncoding ==
    (Sent /\ At(published, 0) = CMD_SET_STATIC) =>
        /\ Field(published, 1) = ExactLevel(_color[1], StoredPercent)
        /\ Field(published, 2) = ExactLevel(_color[2], StoredPercent)
        /\ Field(published, 3) = ExactLevel(_color[3], StoredPercent)
        /\ Field(published, 4) = 0
        /\ Field(published, 5) = 0
        /\ Field(published, 6) = StoredPercent
        /\ At(published, 13) = 15

(***************************************************************************)
(* C5: animate(true) emits cmd 0x66, field1 0x25, field2 the device speed  *)
(* floor((100 - s) * 255 / 100) of the stored speed s, field3 0x64 and     *)
(* zero in every other field before the checksum; s = 100 gives 0, s = 1   *)
(* gives 252 and the initial s = 99 gives 2.                               *)
(***************************************************************************)
C5_AnimateFrame ==
    (call.op = "animate" /\ call.arg) =>
        /\ Sent
        /\ At(published, 0) = 102
        /\ Field(published, 1) = 37
        /\ 100 * Field(published, 2) <= (100 - _animation_speed) * 255
        /\ 100 * (Field(published, 2) + 1) > (100 - _animation_speed) * 255
        /\ Field(published, 3) = 100
        /\ \A k \in 4..6 : Field(published, k) = 0
        /\ At(published, 13) = 0
        /\ (_animation_speed = 100 => Field(published, 2) = 0)
        /\ (_animation_speed = 1 => Field(published, 2) = 252)
        /\ (_animation_speed = 99 => Field(published, 2) = 2)

C5_Witness ==
    /\ call.op = "animate"
    /\ call.arg
    /\ _animation_speed = 1
    /\ Field(published, 2) = 252

(***************************************************************************)
(* C6: on() emits cmd 0xFA, field1 0x23; off() emits cmd 0xFA, field1      *)
(* 0x24; update() emits cmd 0xA9, field1 0xF0; fields 2..6 and the first   *)
(* trailing u8 are 0 in all three, whatever the stored state.              *)
(***************************************************************************)
RestZero(frame) ==
    /\ \A k \in 2..6 : Field(frame, k) = 0
    /\ At(frame, 13) = 0

C6_PowerUpdateFrames ==
    /\ call.op = "on" =>
           /\ Sent
           /\ At(published, 0) = 250
           /\ Field(published, 1) = 35
           /\ RestZero(published)
    /\ call.op = "off" =>
           /\ Sent
           /\ At(published, 0) = 250
           /\ Field(published, 1) = 36
           /\ RestZero(published)
    /\ call.op = "update" =>
           /\ Sent
           /\ At(published, 0) = 169
           /\ Field(published, 1) = 240
           /\ RestZero(published)

\* off() called on a strip that is on, red, at reduced brightness and speed
C6_Witness ==
    /\ call.op = "off"
    /\ Field(published, 1) = 36
    /\ _color = <<255, 0, 0>>
    /\ _brightness # FloatOne
    /\ _animation_speed = 1

(***************************************************************************)
(* C7: get_brightness() called right after set_brightness(p) returns p for *)
(* p in 0..100, 0 for p < 0 and 100 for p > 100.                           *)
(***************************************************************************)
C7_BrightnessRoundTrip ==
    [][(call.op = "set_brightness" /\ call'.op = "get_brightness") =>
           ret' = IF call.arg < 0 THEN 0
                  ELSE IF call.arg > 100 THEN 100
                  ELSE call.arg]_vars

\* get_brightness() returning 29, the double 0.29 * 100 being just below 29
C7_Witness ==
    /\ call.op = "get_brightness"
    /\ ret = 29
    /\ _brightness = FloatDivInt(29, 100)

(***************************************************************************)
(* C8: in every reachable state the stored brightness is within [0.0, 1.0] *)
(* and the stored animation speed within 1..100; set_animation_speed(0)    *)
(* stores 1 and set_animation_speed(150) stores 100; set_brightness and   *)
(* set_animation_speed raise no error for an out-of-range argument.        *)
(***************************************************************************)
\* 0.0 <= f <= 1.0
FloatInUnit(f) ==
    \/ f = FloatZero
    \/ f = FloatOne
    \/ (f.mant[6] >= 2^7 /\ f.mant[6] < 2^8 /\ f.exp + MantBits <= 0)

C8_Ranges ==
    /\ FloatInUnit(_brightness)
    /\ brightness_0_100(_brightness) \in 0..100
    /\ _animation_speed \in 1..100
    /\ call.op = "set_animation_speed" =>
           /\ (call.arg = 0 => _animation_speed = 1)
           /\ (call.arg = 150 => _animation_speed = 100)
           /\ (call.arg < 1 => _animation_speed = 1)
           /\ (call.arg > 100 => _animation_speed = 100)
    /\ call.op \in {"set_brightness", "set_animation_speed"} =>
           raised # "ValueError"

C8_Witness ==
    /\ call.op = "set_animation_speed"
    /\ call.arg = 150
    /\ _animation_speed = 100
    /\ _brightness = FloatZero

(***************************************************************************)
(* C9: set_color with a colour that cannot be resolved signals an error,   *)
(* leaves the stored colour, brightness, animation speed and power flag as *)
(* they were, and hands no frame to the transport.                         *)
(***************************************************************************)
C9_InvalidColor ==
    [][(call'.op = "set_color" /\ ResolveColor(call'.arg) = "invalid") =>
           /\ raised' = "ValueError"
           /\ published' = <<>>
           /\ _color' = _color
           /\ _brightness' = _brightness
           /\ _animation_speed' = _animation_speed
           /\ _on' = _on]_vars

\* the rejected call made on a strip that is on, red and at half brightness
C9_Witness ==
    /\ call.op = "set_color"
    /\ ResolveColor(call.arg) = "invalid"
    /\ raised = "ValueError"
    /\ published = <<>>
    /\ _color = <<255, 0, 0>>
    /\ _brightness = FloatDivInt(50, 100)
    /\ _on

(***************************************************************************)
(* C10: set_color (valid or invalid), set_brightness and animate (true or  *)
(* false) leave the power flag, which is_on() returns, unchanged.          *)
(***************************************************************************)
C10_PowerIndependence ==
    [][call'.op \in {"set_color", "set_brightness", "animate"} =>
           _on' = _on]_vars

\* animate called on a strip that is on
C10_Witness ==
    /\ call.op = "animate"
    /\ _on
    /\ Sent

(***************************************************************************)
(* C11: set_animation_speed hands no frame to the transport and changes    *)
(* nothing but the stored speed; no other call changes the stored speed;   *)
(* the Animate frame of animate(true) carries the device speed of the      *)
(* speed stored by the most recent set_animation_speed, and no frame of    *)
(* another call is an Animate frame.                                       *)
(***************************************************************************)
C11_SpeedDeferred ==
    [][/\ call'.op = "set_animation_speed" =>
              /\ publishes' = <<>>
              /\ published' = <<>>
              /\ raised' = "none"
              /\ _animation_speed' = IF call'.arg < 1 THEN 1
                                     ELSE IF call'.arg > 100 THEN 100
                                     ELSE call'.arg
              /\ UNCHANGED <<_on, _brightness, _color, fixed, _connected>>
       /\ call'.op # "set_animation_speed" =>
              _animation_speed' = _animation_speed
       /\ (call'.op = "animate" /\ call'.arg) =>
              /\ 100 * Field(published', 2) <= (100 - _animation_speed) * 255
              /\ 100 * (Field(published', 2) + 1) > (100 - _animation_speed) * 255
       /\ (call.op = "set_animation_speed" /\ call.arg \in 1..100
              /\ call'.op = "animate" /\ call'.arg) =>
              /\ 100 * Field(published', 2) <= (100 - call.arg) * 255
              /\ 100 * (Field(published', 2) + 1) > (100 - call.arg) * 255
       /\ (published' # <<>> /\ ~(call'.op = "animate" /\ call'.arg)) =>
              At(published', 0) # CMD_ANIMATE]_vars

\* set_animation_speed(100) called on a strip that is on and red
C11_Witness ==
    /\ call.op = "set_animation_speed"
    /\ call.arg = 100
    /\ _animation_speed = 100
    /\ publishes = <<>>
    /\ _on
    /\ _color = <<255, 0, 0>>

(***************************************************************************)
(* C12: is_on() is false on a freshly constructed controller; a call of    *)
(* on() or update() that returns normally makes the flag true, a call of   *)
(* off() that returns normally makes it false, and no other call changes   *)
(* it, so the flag is true exactly when the most recent completed call     *)
(* among on, off and update was on or update; is_on() returns the flag.    *)
(***************************************************************************)
C12_PowerFlag ==
    /\ (call.op = "init" => ~_on)
    /\ [][/\ (call'.op \in {"on", "update"} /\ raised' = "none") => _on'
          /\ (call'.op = "off" /\ raised' = "none") => ~_on'
          /\ call'.op \notin {"on", "off", "update"} => _on' = _on
          /\ call'.op = "is_on" => ret' = _on]_vars

\* update() having set the flag
C12_Witness ==
    /\ call.op = "update"
    /\ raised = "none"
    /\ _on
    /\ _animation_speed = 1

(***************************************************************************)
(* C13: every Set-Static-Color frame (of set_color, set_brightness or      *)
(* animate(false)) carries the percentage of the stored brightness and the *)
(* channel levels of the stored colour at that percentage; the stored      *)
(* colour is white until a set_color resolves its colour and then the      *)
(* colour of the most recent such call; the stored brightness is 100       *)
(* percent until a set_brightness and then that of the most recent one;    *)
(* no other call, and no set_color with an invalid colour, alters either.  *)
(* A channel level is floor(x * 100 * p / 255) or, where the double        *)
(* arithmetic of C4 falls short, one less.                                 *)
(***************************************************************************)
EncodesStored(frame) ==
    /\ At(frame, 0) = CMD_SET_STATIC
    /\ Field(frame, 6) = StoredPercent
    /\ \A k \in 1..3 :
           Field(frame, k) \in {ExactLevel(_color[k], StoredPercent) - 1,
                                ExactLevel(_color[k], StoredPercent)}

C13_StateComposition ==
    /\ (call.op = "init" =>
            _color = <<255, 255, 255>> /\ _brightness = FloatOne)
    /\ [](/\ (call.op = "set_color" /\ ResolveColor(call.arg) # "invalid") =>
                 /\ _color = ResolveColor(call.arg)
                 /\ EncodesStored(published)
          /\ call.op = "set_brightness" =>
                 /\ StoredPercent = IF call.arg < 0 THEN 0
                                    ELSE IF call.arg > 100 THEN 100
                                    ELSE call.arg
                 /\ EncodesStored(published)
          /\ (call.op = "animate" /\ ~call.arg) => EncodesStored(published))
    /\ [][/\ (call'.op # "set_color" \/ ResolveColor(call'.arg) = "invalid") =>
                 _color' = _color
          /\ call'.op # "set_brightness" => _brightness' = _brightness]_vars

\* animate(false) re-sending #336699 at 50 percent on a strip that is on
C13_Witness ==
    /\ call.op = "animate"
    /\ ~call.arg
    /\ _color = <<51, 102, 153>>
    /\ _brightness = FloatDivInt(50, 100)
    /\ Field(published, 1) = 1000
    /\ Field(published, 3) = 3000
    /\ Field(published, 6) = 50
    /\ _on

(***************************************************************************)
(* C14: a call of on, off, update, animate(true), animate(false),          *)
(* set_brightness or set_color with a valid colour invokes publish exactly *)
(* once, whether publish returns or raises; is_on, get_brightness,         *)
(* set_animation_speed and set_color with an invalid colour invoke it      *)
(* zero times.                                                             *)
(***************************************************************************)
C14_OneSend ==
    /\ call.op \in {"on", "off", "update", "animate", "set_brightness"} =>
           Len(publishes) = 1
    /\ call.op = "set_color" =>
           Len(publishes) = IF ResolveColor(call.arg) = "invalid" THEN 0 ELSE 1
    /\ call.op \in {"is_on", "get_brightness", "set_animation_speed"} =>
           Len(publishes) = 0
    /\ Len(publishes) = 1 => publishes[1].payload = published

\* on() whose publish raised
C14_Witness ==
    /\ call.op = "on"
    /\ raised = "TransportError"
    /\ Len(publishes) = 1

(***************************************************************************)
(* C15 (as stated): in on, off, update, set_color and set_brightness the   *)
(* stored state is updated before the frame is handed to the transport, so *)
(* at the moment publish is invoked the stored power flag, colour and      *)
(* brightness already reflect the operation.                               *)
(***************************************************************************)
C15_UpdateThenSend ==
    Len(publishes) = 1 =>
        /\ call.op \in {"on", "update"} => publishes[1].self._on
        /\ call.op = "off" => ~publishes[1].self._on
        /\ call.op = "set_color" =>
               publishes[1].self._color = ResolveColor(call.arg)
        /\ call.op = "set_brightness" =>
               publishes[1].self._brightness =
                   FloatDivInt(IF call.arg < 0 THEN 0
                               ELSE IF call.arg > 100 THEN 100
                               ELSE call.arg, 100)

\* C15 (amended): set_color and set_brightness store the colour and the
\* brightness before the frame is handed to the transport, so at the moment
\* publish is invoked they reflect the operation; on, off and update hand the
\* frame to the transport first, so at the moment publish is invoked the power
\* flag still has the value it had before the call.
C15_SendThenFlag ==
    [][Len(publishes') = 1 =>
           /\ call'.op \in {"on", "off", "update"} =>
                  publishes'[1].self =
                      [_on |-> _on, _color |-> _color, _brightness |-> _brightness]
           /\ call'.op = "set_color" =>
                  /\ publishes'[1].self._color = ResolveColor(call'.arg)
                  /\ publishes'[1].self._color = _color'
           /\ call'.op = "set_brightness" =>
                  /\ publishes'[1].self._brightness =
                         FloatDivInt(IF call'.arg < 0 THEN 0
                                     ELSE IF call'.arg > 100 THEN 100
                                     ELSE call'.arg, 100)
                  /\ publishes'[1].self._brightness = _brightness']_vars

\* on() that returned: the flag is set now and was not when publish ran
C15_Witness ==
    /\ call.op = "on"
    /\ raised = "none"
    /\ _on
    /\ Len(publishes) = 1
    /\ ~publishes[1].self._on

(***************************************************************************)
(* C17: every value packed into a u16 field is within 0..65535 and every   *)
(* u8 field within 0..255: each channel level of a static frame is within  *)
(* 0..10000, its brightness percentage within 0..100 and the device speed  *)
(* of an Animate frame within 0..252, for the frames sent and for the      *)
(* frames the stored state would give.                                     *)
(***************************************************************************)
C17_FieldRanges ==
    /\ \A k \in 1..3 : level(_color[k], _brightness) \in 0..10000
    /\ brightness_0_100(_brightness) \in 0..100
    /\ device_speed(_animation_speed) \in 0..252
    /\ Sent =>
           /\ Len(published) = 16
           /\ \A i \in 1..16 : published[i] \in 0..255
           /\ \A k \in 1..6 : Field(published, k) \in 0..65535
           /\ At(published, 0) = CMD_SET_STATIC =>
                  /\ \A k \in 1..3 : Field(published, k) \in 0..10000
                  /\ Field(published, 6) \in 0..100
           /\ At(published, 0) = CMD_ANIMATE =>
                  Field(published, 2) \in 0..252

\* white at a brightness argument above 100: every channel at the maximum
C17_Witness ==
    /\ call.op = "set_brightness"
    /\ call.arg > 100
    /\ _color = <<255, 255, 255>>
    /\ Field(published, 1) = 10000
    /\ Field(published, 6) = 100

(***************************************************************************)
(* C18: when publish raises during on(), off() or update(), the call       *)
(* raises the same error, publish has been invoked once only and the power *)
(* flag keeps its value; the flag changes only in a call of on, off or     *)
(* update whose publish returned normally.                                 *)
(***************************************************************************)
C18_TransportFailure ==
    [][/\ (call'.op \in {"on", "off", "update"}
              /\ publishes'[1].raises # "none") =>
              /\ raised' = publishes'[1].raises
              /\ Len(publishes') = 1
              /\ _on' = _on
       /\ _on' # _on =>
              /\ call'.op \in {"on", "off", "update"}
              /\ Len(publishes') = 1
              /\ publishes'[1].raises = "none"
              /\ raised' = "none"]_vars

\* off() whose publish raised, on a strip that stays on
C18_Witness ==
    /\ call.op = "off"
    /\ raised = "TransportError"
    /\ publishes[1].raises = "TransportError"
    /\ _on

(***************************************************************************)
(* C19: every frame published, after any sequence of operations and        *)
(* connection callbacks, goes to the topic that is the configured prefix   *)
(* followed by the device identifier, with the qos given at construction;  *)
(* no operation and no callback changes the topic or the qos.              *)
(***************************************************************************)
C19_FixedDestination ==
    /\ [](/\ topic = configured.topic_prefix \o configured.mac_addr
          /\ device_mac = configured.mac_addr
          /\ qos = configured.qos
          /\ \A i \in 1..Len(publishes) :
                 /\ publishes[i].topic =
                        configured.topic_prefix \o configured.mac_addr
                 /\ publishes[i].qos = configured.qos)
    /\ [][/\ topic' = topic
          /\ qos' = qos
          /\ device_mac' = device_mac
          /\ configured' = configured]_vars

\* off() published at qos 2 under the prefix led/ after the connection was
\* established and closed
C19_Witness ==
    /\ call.op = "off"
    /\ Len(publishes) = 1
    /\ publishes[1].topic = <<"led", "/", "0011223344ff">>
    /\ publishes[1].qos = 2
    /\ client = "stopped"
    /\ _connected

(***************************************************************************)
(* C16: callers of set_brightness and set_color that take no lock can      *)
(* publish a Set-Static-Color frame whose channel levels and percentage do *)
(* not derive from one (colour, brightness) pair: such a frame is reached  *)
(* when the steps of two calls interleave (C16_Witness), whereas a call    *)
(* that runs while no other caller has started publishes the frame of the  *)
(* colour and brightness stored when it returns.                           *)
(***************************************************************************)
C16_AloneConsistent ==
    \A t \in Callers :
        (callers[t].pc = "done" /\ \A u \in Callers \ {t} : callers[u].pc = "idle")
            => published = _insert_checksum(_apply_static(_color, _brightness))

\* white: the red level read at 50 percent, the green and blue levels and the
\* percentage read after the other caller stored 0 percent
C16_Witness ==
    /\ \A t \in Callers : callers[t].pc = "done"
    /\ _color = <<255, 255, 255>>
    /\ At(published, 0) = CMD_SET_STATIC
    /\ Field(published, 1) = 5000
    /\ Field(published, 2) = 0
    /\ Field(published, 3) = 0
    /\ Field(published, 6) = 0

====
